---- MODULE Spec2Model ----
(***************************************************************************)
(* Batch scoring pipeline of the Student Lead Scoring platform             *)
(* (src/app.py, process_and_predict and its two dashboard callers).        *)
(*                                                                         *)
(* Numbers: a probability is an integer number of millionths (0..1000000), *)
(* Lead_Score_% is an integer number of hundredths of a percent.           *)
(* A table is [columns |-> sequence of names, rows |-> sequence of rows],  *)
(* a row is a function from column name to cell, and a cell is a record    *)
(* [t, s, n] where t is the dtype, s the text of a string cell and n the   *)
(* number of a numeric cell.                                               *)
(***************************************************************************)
EXTENDS Integers, Sequences, FiniteSets, TLC

VARIABLES
    label_encoders,  \* the loaded encoder dict, in key order
    scaler,          \* the loaded scaler
    best_model,      \* the loaded classifier: the part of its decision function evaluated so far
    argsort_ties,    \* how the sort kind orders equal keys: the part evaluated so far
    uploaded_file,   \* the CSV in the file uploader (text cells)
    df,              \* the caller's data frame (new_leads), argument of process_and_predict
    df_processed,    \* the working copy
    features_scaled, \* output of scaler.transform, one vector per row
    scores,          \* predict_proba(...)[:, 1], in upload row order
    predictions,     \* predict(...), in upload row order
    sorted_index,    \* index of df.sort_values(...) before reset_index
    result_df,       \* first component of the returned pair
    error,           \* second component of the returned pair
    pc,              \* position of the running call
    stages,          \* the statements of the call executed so far
    prev,            \* file and outcome of the previous call
    nruns,           \* number of calls made so far
    nsuccess,        \* number of calls that returned a table
    user,            \* st.session_state.user['id'] of the browser session
    usage_logs,      \* rows of the usage_logs table, oldest first
    shown,           \* what the dashboard shows for the current upload
    on_disk,         \* the three .pkl files are readable
    cache_loaded,    \* st.cache_resource holds the value of load_models()
    load_attempts,   \* number of executions of the body of load_models
    load_failed,     \* some execution of load_models has ended in st.stop()
    other,           \* the locals of a second caller's run of process_and_predict
    users,           \* rows of the users table, by id
    users_seq,       \* AUTOINCREMENT: the largest users.id ever given
    sessions,        \* rows of the sessions table, oldest first
    browsers,        \* st.session_state and script position of each browser
    nops             \* number of button presses handled so far

vars == <<label_encoders, scaler, best_model, argsort_ties, uploaded_file, df,
          df_processed, features_scaled, scores, predictions, sorted_index,
          result_df, error, pc, stages, prev, nruns, nsuccess, user, usage_logs,
          shown, on_disk, cache_loaded, load_attempts, load_failed, other, users,
          users_seq, sessions, browsers, nops>>

callerVars == <<user, usage_logs, shown>>

loadVars == <<on_disk, cache_loaded, load_attempts, load_failed>>

authVars == <<users, users_seq, sessions, browsers, nops>>

----------------------------------------------------------------------------
\* Bounds of the model

MaxRows == 2
MaxRuns == 2
MaxLoads == 2
MaxOps == 5

----------------------------------------------------------------------------
\* Generic helpers

Range(s) == {s[i] : i \in DOMAIN s}

\* cells
S(x) == [t |-> "str", s |-> x, n |-> 0]
I(k) == [t |-> "int", s |-> "", n |-> k]
F(k) == [t |-> "float", s |-> "", n |-> k]
Cat(x) == [t |-> "category", s |-> x, n |-> 0]
NaN == [t |-> "nan", s |-> "", n |-> 0]

NoTable == [columns |-> <<>>, rows |-> <<>>]
\* the error component: None, or the text of a message with the columns and
\* values the text mentions
NoError == [isnone |-> TRUE, msg |-> "", cols |-> <<>>, vals |-> {}]
NoPrev == [file |-> NoTable, result |-> NoTable, error |-> NoError]

----------------------------------------------------------------------------
\* The artifacts

\* label_encoders.pkl: one LabelEncoder per categorical column of the
\* sample template; classes_ is the sorted vocabulary, the code of a class
\* is its position in classes_ counted from 0.
LoadedEncoders ==
    << [key |-> "Email_Source", classes_ |-> <<"Direct", "Google">>],
       [key |-> "Contacted",    classes_ |-> <<"No", "Yes">>] >>

\* scaler.pkl: fitted on one feature per encoded column; a standard scaler
\* of a balanced 0/1 column has mean 1/2 and scale 1/2, so x |-> 2x - 1.
\* twice_mean_ is 2 * mean_ and inv_scale_ is 1 / scale_.
LoadedScaler == [n_features_in_ |-> Len(LoadedEncoders), twice_mean_ |-> 1, inv_scale_ |-> 2]

\* best_model.pkl: the values (probability of class 1, predicted label) a
\* fitted classifier can return for a feature vector; a negative first
\* component stands for a call that raises, -1 with a message and -2 with
\* an empty message.
ModelOutputs ==
    { <<0, 0>>, <<400000, 1>>, <<700000, 0>>, <<700001, 1>>, <<-1, 0>>, <<-2, 0>> }

\* before load_models() has returned there is no scaler
NoScaler == [n_features_in_ |-> 0, twice_mean_ |-> 0, inv_scale_ |-> 0]

\* the artifacts of the worked example: two encoders with the stated
\* vocabularies, a scaler that changes nothing, and a classifier with the
\* two stated answers
ExampleEncoders ==
    << [key |-> "Source",    classes_ |-> <<"Google", "Direct">>],
       [key |-> "Contacted", classes_ |-> <<"No", "Yes">>] >>

ExampleScaler == [n_features_in_ |-> Len(ExampleEncoders), twice_mean_ |-> 0, inv_scale_ |-> 1]

ExampleModel == [x \in {<<0, 1>>, <<1, 0>>} |-> IF x = <<0, 1>> THEN <<850000, 1>> ELSE <<200000, 0>>]

ModelErrorText(out) ==
    [isnone |-> FALSE, msg |-> IF out[1] = -1 THEN "prediction failed" ELSE "",
     cols |-> <<>>, vals |-> {}]

----------------------------------------------------------------------------
\* The uploads

Layouts ==
    { <<"Email_Source", "Contacted">>,
      <<"Contacted", "Email_Source">>,
      <<"Email_Source">>,
      <<"Location">>,
      <<"Email_Source", "Contacted", "Location">>,
      <<"Email_Source", "Contacted", "Converted">>,
      <<"Converted", "Email_Source">> }

RowPool ==
    { [Email_Source |-> "Direct", Contacted |-> "Yes", Location |-> "Pune", Converted |-> "1"],
      [Email_Source |-> "Direct", Contacted |-> "Yes", Location |-> "Pune", Converted |-> "0"],
      [Email_Source |-> "Google", Contacted |-> "No",  Location |-> "Pune", Converted |-> "1"],
      [Email_Source |-> "Bing",   Contacted |-> "Yes", Location |-> "Pune", Converted |-> "1"],
      [Email_Source |-> "Google", Contacted |-> "1",   Location |-> "Pune", Converted |-> "1"] }

Files ==
    UNION { { [columns |-> lay,
               rows |-> [i \in 1..n |-> [c \in Range(lay) |-> rs[i][c]]]]
              : rs \in [1..n -> RowPool] }
            : lay \in Layouts, n \in 1..MaxRows }

\* the uploads tried against the artifacts of the worked example: its two
\* leads, a lead the example model has no stated answer for, a lead with a
\* source outside the vocabulary, with and without a column missing or added
ExampleLayouts ==
    { <<"Source", "Contacted">>,
      <<"Contacted", "Source">>,
      <<"Source">>,
      <<"Source", "Contacted", "Location">> }

ExampleRows ==
    { [Source |-> "Google", Contacted |-> "Yes", Location |-> "Pune"],
      [Source |-> "Direct", Contacted |-> "No",  Location |-> "Pune"],
      [Source |-> "Google", Contacted |-> "No",  Location |-> "Pune"],
      [Source |-> "Bing",   Contacted |-> "Yes", Location |-> "Pune"] }

ExampleFiles ==
    UNION { { [columns |-> lay,
               rows |-> [i \in 1..n |-> [c \in Range(lay) |-> rs[i][c]]]]
              : rs \in [1..n -> ExampleRows] }
            : lay \in ExampleLayouts, n \in 1..MaxRows }

\* the decimal texts pandas parses as int64
NumText == [x \in {"0", "1"} |-> IF x = "0" THEN 0 ELSE 1]

\* pd.read_csv: a column whose every field is an integer text becomes an
\* int64 column, any other column an object column of strings.
read_csv(f) ==
    LET numeric(c) == \A i \in DOMAIN f.rows : f.rows[i][c] \in DOMAIN NumText
    IN [columns |-> f.columns,
        rows |-> [i \in DOMAIN f.rows |->
                    [c \in Range(f.columns) |->
                        IF numeric(c) THEN I(NumText[f.rows[i][c]])
                                      ELSE S(f.rows[i][c])]]]

----------------------------------------------------------------------------
\* process_and_predict, statement by statement

expected_cols == [i \in DOMAIN label_encoders |-> label_encoders[i].key]

\* variant: the message lists every expected column once one is absent
missing_cols_all(t) ==
    IF \E c \in Range(expected_cols) : c \notin Range(t.columns) THEN expected_cols ELSE <<>>

missing_cols(t) == SelectSeq(expected_cols, LAMBDA c : c \notin Range(t.columns))

SchemaErrorText(missing) ==
    [isnone |-> FALSE, msg |-> "Missing required columns", cols |-> missing, vals |-> {}]

\* DataFrame.drop(columns=[c])
drop(t, c) ==
    LET keep == SelectSeq(t.columns, LAMBDA x : x # c)
    IN [columns |-> keep,
        rows |-> [i \in DOMAIN t.rows |-> [x \in Range(keep) |-> t.rows[i][x]]]]

DropConverted(t) ==
    IF "Converted" \in Range(t.columns) THEN drop(t, "Converted") ELSE t

\* Series.astype(str)
astype_str(cell) ==
    CASE cell.t = "str" -> cell
      [] cell.t = "int" -> S(ToString(cell.n))
      [] cell.t = "nan" -> S("nan")
      [] OTHER -> S(ToString(cell.n))

\* LabelEncoder.transform: the labels of y outside classes_
unseen(le, y) == {y[i].s : i \in DOMAIN y} \ Range(le.classes_)

CodeOf(le, cell) == I((CHOOSE k \in DOMAIN le.classes_ : le.classes_[k] = cell.s) - 1)

UnseenErrorText(labels) ==
    [isnone |-> FALSE, msg |-> "y contains previously unseen labels", cols |-> <<>>, vals |-> labels]

AsStr(t, c) == [i \in DOMAIN t.rows |-> astype_str(t.rows[i][c])]

\* positions in expected_cols whose transform raises
RaisingCols(t) ==
    {k \in DOMAIN label_encoders :
        /\ label_encoders[k].key \in Range(t.columns)
        /\ unseen(label_encoders[k], AsStr(t, label_encoders[k].key)) # {}}

FirstRaising(t) == CHOOSE k \in RaisingCols(t) : \A j \in RaisingCols(t) : k <= j

EncodeError(t) ==
    LET k == FirstRaising(t)
    IN UnseenErrorText(unseen(label_encoders[k], AsStr(t, label_encoders[k].key)))

EncoderOf(c) == label_encoders[CHOOSE k \in DOMAIN label_encoders : label_encoders[k].key = c]

Encoded(t) ==
    [columns |-> t.columns,
     rows |-> [i \in DOMAIN t.rows |->
                 [c \in Range(t.columns) |->
                     IF c \in Range(expected_cols)
                     THEN CodeOf(EncoderOf(c), astype_str(t.rows[i][c]))
                     ELSE t.rows[i][c]]]]

\* scaler.transform: conversion of the frame to a float matrix, then the
\* feature-count check, then the linear transform
Convertible(cell) == cell.t \in {"int", "float"} \/ (cell.t = "str" /\ cell.s \in DOMAIN NumText)

NumberOf(cell) == IF cell.t = "str" THEN NumText[cell.s] ELSE cell.n

BadCells(t) ==
    {<<i, j>> \in (DOMAIN t.rows) \X (DOMAIN t.columns) : ~Convertible(t.rows[i][t.columns[j]])}

FirstBadCell(t) ==
    CHOOSE p \in BadCells(t) :
        \A q \in BadCells(t) : p[1] < q[1] \/ (p[1] = q[1] /\ p[2] <= q[2])

ScaleError(t) ==
    IF BadCells(t) # {}
    THEN LET p == FirstBadCell(t)
         IN [isnone |-> FALSE, msg |-> "could not convert string to float", cols |-> <<>>,
             vals |-> {t.rows[p[1]][t.columns[p[2]]].s}]
    ELSE IF Len(t.columns) # scaler.n_features_in_
    THEN [isnone |-> FALSE,
          msg |-> "X has a different number of features than the scaler is expecting",
          cols |-> <<>>, vals |-> {}]
    ELSE NoError

ScalerTransform(t) ==
    [i \in DOMAIN t.rows |->
        [j \in DOMAIN t.columns |->
            scaler.inv_scale_ * NumberOf(t.rows[i][t.columns[j]])
                - (scaler.twice_mean_ * scaler.inv_scale_) \div 2]]

\* pd.cut(scores, bins=[0, 0.4, 0.7, 1.0], labels=[Low, Medium, High]):
\* right-closed bins, the lowest edge not included
cut(p) ==
    IF p > 0 /\ p <= 400000 THEN Cat("Low")
    ELSE IF p > 400000 /\ p <= 700000 THEN Cat("Medium")
    ELSE IF p > 700000 /\ p <= 1000000 THEN Cat("High")
    ELSE NaN

\* (scores * 100).round(2): hundredths of a percent, halves to even
Round2(p) ==
    LET q == p \div 100
        r == p % 100
    IN IF r > 50 THEN q + 1
       ELSE IF r < 50 THEN q
       ELSE IF q % 2 = 0 THEN q ELSE q + 1

\* variant: the two labels exchanged
PredictionLabel_inverted(p) == IF p = 1 THEN S("Unlikely") ELSE S("Likely")

PredictionLabel(p) == IF p = 1 THEN S("Likely") ELSE S("Unlikely")

\* df[c] = values: replaces the column if it exists, appends it otherwise
SetColumn(t, c, values) ==
    [columns |-> IF c \in Range(t.columns) THEN t.columns ELSE Append(t.columns, c),
     rows |-> [i \in DOMAIN t.rows |->
                 [x \in Range(t.columns) \cup {c} |->
                     IF x = c THEN values[i] ELSE t.rows[i][x]]]]

\* variant: the Prediction is derived from the score, Likely above one half
AddResults_fromscore(t, sc, pr) ==
    LET t1 == SetColumn(t, "Lead_Score", [i \in DOMAIN sc |-> F(sc[i])])
        t2 == SetColumn(t1, "Lead_Score_%", [i \in DOMAIN sc |-> F(Round2(sc[i]))])
        t3 == SetColumn(t2, "Priority", [i \in DOMAIN sc |-> cut(sc[i])])
    IN SetColumn(t3, "Prediction",
                 [i \in DOMAIN sc |-> IF 2 * sc[i] > 1000000 THEN S("Likely") ELSE S("Unlikely")])

\* variant: the scores are attached to the rows in reversed row order
AddResults_misaligned(t, sc, pr) ==
    LET rv == [i \in DOMAIN sc |-> sc[Len(sc) + 1 - i]]
        t1 == SetColumn(t, "Lead_Score", [i \in DOMAIN sc |-> F(rv[i])])
        t2 == SetColumn(t1, "Lead_Score_%", [i \in DOMAIN sc |-> F(Round2(rv[i]))])
        t3 == SetColumn(t2, "Priority", [i \in DOMAIN sc |-> cut(rv[i])])
    IN SetColumn(t3, "Prediction", [i \in DOMAIN pr |-> PredictionLabel(pr[i])])

AddResults(t, sc, pr) ==
    LET t1 == SetColumn(t, "Lead_Score", [i \in DOMAIN sc |-> F(sc[i])])
        t2 == SetColumn(t1, "Lead_Score_%", [i \in DOMAIN sc |-> F(Round2(sc[i]))])
        t3 == SetColumn(t2, "Priority", [i \in DOMAIN sc |-> cut(sc[i])])
    IN SetColumn(t3, "Prediction", [i \in DOMAIN pr |-> PredictionLabel(pr[i])])

\* variant: ascending=True
Ascending(keys, p) == \A i \in 1..(Len(keys) - 1) : keys[p[i]] <= keys[p[i + 1]]

\* sort_values(by='Lead_Score', ascending=False) with the default kind:
\* any order of the rows in which the keys do not increase
Descending(keys, p) == \A i \in 1..(Len(keys) - 1) : keys[p[i]] >= keys[p[i + 1]]

Orders(keys) ==
    {p \in [DOMAIN keys -> DOMAIN keys] :
        /\ \A i, j \in DOMAIN keys : i # j => p[i] # p[j]
        /\ Descending(keys, p)}

Take(t, p) == [columns |-> t.columns, rows |-> [i \in DOMAIN p |-> t.rows[p[i]]]]

----------------------------------------------------------------------------
\* State machine: the dashboard script and one call of process_and_predict

\* the script is not inside process_and_predict and has handled its result
Rest == pc = "idle" \/ (pc \in {"done", "failed"} /\ shown # "pending")

\* users.id: 1 is the built-in admin, 2 an account created by the admin
UserIds == {1, 2}

\* the locals of a caller that is not inside process_and_predict
NoRun ==
    [file |-> NoTable, df |-> NoTable, df_processed |-> NoTable, features_scaled |-> <<>>,
     scores |-> <<>>, predictions |-> <<>>, result_df |-> NoTable, error |-> NoError,
     pc |-> "idle"]

\* passwords, as the sequences of their characters
AdminPassword == <<"a", "d", "m", "i", "n", "1", "2", "3">>

GoodPassword == <<"s", "e", "c", "r", "e", "t">>

ShortPassword == <<"s", "e", "c", "r", "e">>

\* hashlib.sha256(password.encode()).hexdigest()
hash_password(password) == <<"sha256", password>>

\* the row init_database inserts when there is no user named admin
AdminRow ==
    [username |-> "admin", password_hash |-> hash_password(AdminPassword),
     is_active |-> TRUE, role |-> "admin"]

Browsers == {"b1", "b2"}

\* st.session_state.user = None
NoUser == [id |-> 0, username |-> "", role |-> "", is_active |-> FALSE]

\* a browser on the login page
LoggedOut == [logged_in |-> FALSE, user |-> NoUser, at |-> "page", sel |-> NoUser]

\* the database and the browsers when the scoring session begins: the admin
\* has created account 2, and its owner has logged in from one browser
LoggedInStart ==
    /\ users = (1 :> AdminRow) @@
               (2 :> [username |-> "alice", password_hash |-> hash_password(GoodPassword),
                      is_active |-> TRUE, role |-> "user"])
    /\ users_seq = 2
    /\ sessions = << [user_id |-> 2, is_active |-> TRUE] >>
    /\ usage_logs = << [user_id |-> 2, action |-> "login", details |-> "", leads_scored |-> 0] >>
    /\ browsers = [b \in Browsers |->
                     IF b = "b1"
                     THEN [logged_in |-> TRUE,
                           user |-> [id |-> 2, username |-> "alice", role |-> "user",
                                     is_active |-> TRUE],
                           at |-> "page", sel |-> NoUser]
                     ELSE LoggedOut]
    /\ nops = 0

LastOutcome ==
    IF pc = "idle" THEN prev
    ELSE [file |-> uploaded_file, result |-> result_df, error |-> error]

\* two uploads that differ at most in their Converted column
Related(f, g) == DropConverted(f) = DropConverted(g)

\* two uploads with the same columns and cells, the columns in any order
Permuted(f, g) == Range(f.columns) = Range(g.columns) /\ f.rows = g.rows

Variants ==
    [g \in Files \cup ExampleFiles |->
        {f \in Files \cup ExampleFiles : f # g /\ (Related(f, g) \/ Permuted(f, g))}]

\* the files the user may put in the uploader: any file at first, later the
\* same lead list with its Converted column added, removed or edited, or
\* with its columns in another order; after runs on two files the session
\* goes on with the second one
Offered ==
    IF uploaded_file = NoTable
    THEN IF label_encoders = ExampleEncoders THEN ExampleFiles ELSE Files
    ELSE IF prev.file = NoTable THEN Variants[uploaded_file]
    ELSE {}

Init ==
    /\ label_encoders = LoadedEncoders
    /\ scaler = LoadedScaler
    /\ best_model = <<>>
    /\ argsort_ties = <<>>
    /\ uploaded_file = NoTable
    /\ df = NoTable
    /\ df_processed = NoTable
    /\ features_scaled = <<>>
    /\ scores = <<>>
    /\ predictions = <<>>
    /\ sorted_index = <<>>
    /\ result_df = NoTable
    /\ error = NoError
    /\ pc = "idle"
    /\ stages = <<>>
    /\ prev = NoPrev
    /\ nruns = 0
    /\ nsuccess = 0
    /\ user = 2
    /\ LoggedInStart
    /\ other = NoRun
    /\ shown = "none"
    /\ on_disk = TRUE
    /\ cache_loaded = TRUE
    /\ load_attempts = 1
    /\ load_failed = FALSE

\* st.file_uploader: the user puts a CSV in the uploader
ChooseFile(f) ==
    /\ cache_loaded
    /\ Rest
    /\ nruns < MaxRuns
    /\ f \in Offered
    /\ uploaded_file' = f
    /\ prev' = LastOutcome
    /\ pc' = "idle"
    /\ df' = NoTable
    /\ result_df' = NoTable
    /\ error' = NoError
    /\ sorted_index' = <<>>
    /\ stages' = <<>>
    /\ UNCHANGED <<label_encoders, scaler, best_model, argsort_ties, df_processed,
                   features_scaled, scores, predictions, nruns>>
    /\ shown' = "none"
    /\ UNCHANGED <<nsuccess, user, usage_logs, loadVars>>
    /\ UNCHANGED <<other, authVars>>

\* variant: the script keeps the frame of the previous run of the same file
\* instead of reading the upload again
Call_reuse ==
    /\ cache_loaded
    /\ Rest
    /\ nruns < MaxRuns
    /\ uploaded_file # NoTable
    /\ df' = IF df # NoTable THEN df ELSE read_csv(uploaded_file)
    /\ prev' = LastOutcome
    /\ nruns' = nruns + 1
    /\ pc' = "validate"
    /\ result_df' = NoTable
    /\ error' = NoError
    /\ sorted_index' = <<>>
    /\ stages' = <<>>
    /\ UNCHANGED <<label_encoders, scaler, best_model, argsort_ties, uploaded_file,
                   df_processed, features_scaled, scores, predictions>>
    /\ shown' = "pending"
    /\ UNCHANGED <<nsuccess, user, usage_logs, loadVars>>
    /\ UNCHANGED <<other, authVars>>

\* the script run: new_leads = pd.read_csv(uploaded_file), then the call
Call ==
    /\ cache_loaded
    /\ Rest
    /\ nruns < MaxRuns
    /\ uploaded_file # NoTable
    /\ df' = read_csv(uploaded_file)
    /\ prev' = LastOutcome
    /\ nruns' = nruns + 1
    /\ pc' = "validate"
    /\ result_df' = NoTable
    /\ error' = NoError
    /\ sorted_index' = <<>>
    /\ stages' = <<>>
    /\ UNCHANGED <<label_encoders, scaler, best_model, argsort_ties, uploaded_file,
                   df_processed, features_scaled, scores, predictions>>
    /\ shown' = "pending"
    /\ UNCHANGED <<nsuccess, user, usage_logs, loadVars>>
    /\ UNCHANGED <<other, authVars>>

\* variant: a failing call hands back the frame together with the message
Fail_partial(e) ==
    /\ pc' = "failed"
    /\ result_df' = df
    /\ error' = e
    /\ df_processed' = NoTable
    /\ features_scaled' = <<>>
    /\ scores' = <<>>
    /\ predictions' = <<>>

\* return None, message: the locals of the call are gone
Fail(e) ==
    /\ pc' = "failed"
    /\ result_df' = NoTable
    /\ error' = e
    /\ df_processed' = NoTable
    /\ features_scaled' = <<>>
    /\ scores' = <<>>
    /\ predictions' = <<>>

Validate ==
    /\ pc = "validate"
    /\ stages' = Append(stages, "validate")
    /\ IF missing_cols(df) # <<>>
       THEN Fail(SchemaErrorText(missing_cols(df)))
       ELSE /\ pc' = "copy"
            /\ UNCHANGED <<result_df, error, df_processed, features_scaled, scores, predictions>>
    /\ UNCHANGED <<label_encoders, scaler, best_model, argsort_ties, uploaded_file, df,
                   sorted_index, prev, nruns>>
    /\ UNCHANGED <<nsuccess, callerVars, loadVars>>
    /\ UNCHANGED <<other, authVars>>

\* variant: Converted is dropped from the caller's frame as well
CopyAndDrop_inplace ==
    /\ pc = "copy"
    /\ stages' = Append(stages, "copy")
    /\ df' = DropConverted(df)
    /\ df_processed' = DropConverted(df)
    /\ pc' = "encode"
    /\ UNCHANGED <<label_encoders, scaler, best_model, argsort_ties, uploaded_file,
                   features_scaled, scores, predictions, sorted_index, result_df, error,
                   prev, nruns>>
    /\ UNCHANGED <<nsuccess, callerVars, loadVars>>
    /\ UNCHANGED <<other, authVars>>

\* variant: Converted is not dropped from the working copy
CopyAndDrop_keep ==
    /\ pc = "copy"
    /\ stages' = Append(stages, "copy")
    /\ df_processed' = df
    /\ pc' = "encode"
    /\ UNCHANGED <<label_encoders, scaler, best_model, argsort_ties, uploaded_file, df,
                   features_scaled, scores, predictions, sorted_index, result_df, error,
                   prev, nruns>>
    /\ UNCHANGED <<nsuccess, callerVars, loadVars>>
    /\ UNCHANGED <<other, authVars>>

\* variant: the call goes from the copy straight to the scaler
CopyAndDrop_skip ==
    /\ pc = "copy"
    /\ stages' = Append(stages, "copy")
    /\ df_processed' = DropConverted(df)
    /\ pc' = "scale"
    /\ UNCHANGED <<label_encoders, scaler, best_model, argsort_ties, uploaded_file, df,
                   features_scaled, scores, predictions, sorted_index, result_df, error,
                   prev, nruns>>
    /\ UNCHANGED <<nsuccess, callerVars, loadVars>>
    /\ UNCHANGED <<other, authVars>>

CopyAndDrop ==
    /\ pc = "copy"
    /\ stages' = Append(stages, "copy")
    /\ df_processed' = DropConverted(df)
    /\ pc' = "encode"
    /\ UNCHANGED <<label_encoders, scaler, best_model, argsort_ties, uploaded_file, df,
                   features_scaled, scores, predictions, sorted_index, result_df, error,
                   prev, nruns>>
    /\ UNCHANGED <<nsuccess, callerVars, loadVars>>
    /\ UNCHANGED <<other, authVars>>

\* variant: an unseen label is encoded as code 0 instead of raising
Encode_lenient ==
    /\ pc = "encode"
    /\ stages' = Append(stages, "encode")
    /\ df_processed' =
          [columns |-> df_processed.columns,
           rows |-> [i \in DOMAIN df_processed.rows |->
                       [c \in Range(df_processed.columns) |->
                           LET cell == astype_str(df_processed.rows[i][c])
                           IN IF c \notin Range(expected_cols) THEN df_processed.rows[i][c]
                              ELSE IF cell.s \in Range(EncoderOf(c).classes_)
                              THEN CodeOf(EncoderOf(c), cell)
                              ELSE I(0)]]]
    /\ pc' = "scale"
    /\ UNCHANGED <<result_df, error, features_scaled, scores, predictions>>
    /\ UNCHANGED <<label_encoders, scaler, best_model, argsort_ties, uploaded_file, df,
                   sorted_index, prev, nruns>>
    /\ UNCHANGED <<nsuccess, callerVars, loadVars>>
    /\ UNCHANGED <<other, authVars>>

\* variant: the encoder output is also written into the caller's frame
Encode_inplace ==
    /\ pc = "encode"
    /\ stages' = Append(stages, "encode")
    /\ IF RaisingCols(df_processed) # {}
       THEN /\ Fail(EncodeError(df_processed))
            /\ UNCHANGED df
       ELSE /\ df_processed' = Encoded(df_processed)
            /\ df' = Encoded(df)
            /\ pc' = "scale"
            /\ UNCHANGED <<result_df, error, features_scaled, scores, predictions>>
    /\ UNCHANGED <<label_encoders, scaler, best_model, argsort_ties, uploaded_file,
                   sorted_index, prev, nruns>>
    /\ UNCHANGED <<nsuccess, callerVars, loadVars>>
    /\ UNCHANGED <<other, authVars>>

Encode ==
    /\ pc = "encode"
    /\ stages' = Append(stages, "encode")
    /\ IF RaisingCols(df_processed) # {}
       THEN Fail(EncodeError(df_processed))
       ELSE /\ df_processed' = Encoded(df_processed)
            /\ pc' = "scale"
            /\ UNCHANGED <<result_df, error, features_scaled, scores, predictions>>
    /\ UNCHANGED <<label_encoders, scaler, best_model, argsort_ties, uploaded_file, df,
                   sorted_index, prev, nruns>>
    /\ UNCHANGED <<nsuccess, callerVars, loadVars>>
    /\ UNCHANGED <<other, authVars>>

Scale ==
    /\ pc = "scale"
    /\ stages' = Append(stages, "scale")
    /\ IF ScaleError(df_processed) # NoError
       THEN Fail(ScaleError(df_processed))
       ELSE /\ features_scaled' = ScalerTransform(df_processed)
            /\ pc' = "predict"
            /\ UNCHANGED <<result_df, error, df_processed, scores, predictions>>
    /\ UNCHANGED <<label_encoders, scaler, best_model, argsort_ties, uploaded_file, df,
                   sorted_index, prev, nruns>>
    /\ UNCHANGED <<nsuccess, callerVars, loadVars>>
    /\ UNCHANGED <<other, authVars>>

\* predict_proba and predict: the classifier is a fixed function of the
\* feature vector; its value at a vector is fixed the first time it is used
Predict ==
    /\ pc = "predict"
    /\ stages' = Append(stages, "predict")
    /\ \E fresh \in [Range(features_scaled) \ DOMAIN best_model -> ModelOutputs] :
          best_model' = [x \in DOMAIN best_model \cup DOMAIN fresh |->
                            IF x \in DOMAIN best_model THEN best_model[x] ELSE fresh[x]]
    /\ LET out == [i \in DOMAIN features_scaled |-> best_model'[features_scaled[i]]]
           raising == {i \in DOMAIN out : out[i][1] < 0}
       IN IF raising # {}
          THEN Fail(ModelErrorText(out[CHOOSE i \in raising : \A j \in raising : i <= j]))
          ELSE /\ scores' = [i \in DOMAIN out |-> out[i][1]]
               /\ predictions' = [i \in DOMAIN out |-> out[i][2]]
               /\ pc' = "annotate"
               /\ UNCHANGED <<df_processed, features_scaled, result_df, error>>
    /\ UNCHANGED <<label_encoders, scaler, argsort_ties, uploaded_file, df,
                   sorted_index, prev, nruns>>
    /\ UNCHANGED <<nsuccess, callerVars, loadVars>>
    /\ UNCHANGED <<other, authVars>>

\* variant: the derived columns are added to the encoded working copy
Annotate_processed ==
    /\ pc = "annotate"
    /\ stages' = Append(stages, "annotate")
    /\ df' = AddResults(df_processed, scores, predictions)
    /\ pc' = "sort"
    /\ UNCHANGED <<label_encoders, scaler, best_model, argsort_ties, uploaded_file,
                   df_processed, features_scaled, scores, predictions, sorted_index,
                   result_df, error, prev, nruns>>
    /\ UNCHANGED <<nsuccess, callerVars, loadVars>>
    /\ UNCHANGED <<other, authVars>>

Annotate ==
    /\ pc = "annotate"
    /\ stages' = Append(stages, "annotate")
    /\ df' = AddResults(df, scores, predictions)
    /\ pc' = "sort"
    /\ UNCHANGED <<label_encoders, scaler, best_model, argsort_ties, uploaded_file,
                   df_processed, features_scaled, scores, predictions, sorted_index,
                   result_df, error, prev, nruns>>
    /\ UNCHANGED <<nsuccess, callerVars, loadVars>>
    /\ UNCHANGED <<other, authVars>>

\* sort_values, reset_index and return: the order among equal keys is a
\* fixed function of the key sequence, fixed the first time it is used
SortAndReturn ==
    /\ pc = "sort"
    /\ stages' = Append(stages, "sort")
    /\ \E p \in Orders(scores) :
          /\ scores \in DOMAIN argsort_ties => p = argsort_ties[scores]
          /\ argsort_ties' = [k \in DOMAIN argsort_ties \cup {scores} |->
                                 IF k = scores THEN p ELSE argsort_ties[k]]
          /\ sorted_index' = p
          /\ result_df' = Take(df, p)
    /\ error' = NoError
    /\ pc' = "done"
    /\ df_processed' = NoTable
    /\ features_scaled' = <<>>
    /\ scores' = <<>>
    /\ predictions' = <<>>
    /\ UNCHANGED <<label_encoders, scaler, best_model, uploaded_file, df, prev, nruns>>
    /\ nsuccess' = nsuccess + 1
    /\ UNCHANGED <<callerVars, loadVars>>
    /\ UNCHANGED <<other, authVars>>

\* variant: the caller does not look at the error and logs every call
Handle_unchecked ==
    /\ pc \in {"done", "failed"}
    /\ shown = "pending"
    /\ usage_logs' = Append(usage_logs,
                            [user_id |-> user, action |-> "score_leads",
                             details |-> IF user = 1 THEN "Admin scoring"
                                                     ELSE "User scoring",
                             leads_scored |-> Len(result_df.rows)])
    /\ shown' = IF result_df = NoTable THEN "error" ELSE "results"
    /\ UNCHANGED <<label_encoders, scaler, best_model, argsort_ties, uploaded_file, df,
                   df_processed, features_scaled, scores, predictions, sorted_index,
                   result_df, error, pc, stages, prev, nruns, nsuccess, user, loadVars>>
    /\ UNCHANGED <<other, authVars>>

\* the caller after the call returned: if error: st.error, st.stop;
\* otherwise log_usage(..., len(result_df)) and the results dashboard; the
\* whole block is inside try / except Exception
Handle ==
    /\ pc \in {"done", "failed"}
    /\ shown = "pending"
    /\ IF ~error.isnone /\ error.msg # ""
       THEN /\ shown' = "error"
            /\ UNCHANGED usage_logs
       ELSE IF result_df = NoTable
       THEN /\ shown' = "exception"
            /\ UNCHANGED usage_logs
       ELSE /\ usage_logs' = Append(usage_logs,
                                    [user_id |-> user, action |-> "score_leads",
                                     details |-> IF user = 1 THEN "Admin scoring"
                                                             ELSE "User scoring",
                                     leads_scored |-> Len(result_df.rows)])
            /\ shown' = "results"
    /\ UNCHANGED <<label_encoders, scaler, best_model, argsort_ties, uploaded_file, df,
                   df_processed, features_scaled, scores, predictions, sorted_index,
                   result_df, error, pc, stages, prev, nruns, nsuccess, user, loadVars>>
    /\ UNCHANGED <<other, authVars>>

\* a script run reaches line 920 with nothing in the resource cache: the
\* body of load_models runs; on success its value is cached, on failure
\* st.stop() ends the script run and nothing is cached
LoadModels ==
    /\ ~cache_loaded
    /\ load_attempts < MaxLoads
    /\ load_attempts' = load_attempts + 1
    /\ IF on_disk
       THEN /\ cache_loaded' = TRUE
            /\ label_encoders' = LoadedEncoders
            /\ scaler' = LoadedScaler
            /\ UNCHANGED load_failed
       ELSE /\ load_failed' = TRUE
            /\ UNCHANGED <<cache_loaded, label_encoders, scaler>>
    /\ UNCHANGED <<best_model, argsort_ties, uploaded_file, df, df_processed,
                   features_scaled, scores, predictions, sorted_index, result_df, error,
                   pc, stages, prev, nruns, nsuccess, callerVars, on_disk>>
    /\ UNCHANGED <<other, authVars>>

\* the operator puts the three .pkl files in place
FilesAppear ==
    /\ ~on_disk
    /\ on_disk' = TRUE
    /\ UNCHANGED <<label_encoders, scaler, best_model, argsort_ties, uploaded_file, df,
                   df_processed, features_scaled, scores, predictions, sorted_index,
                   result_df, error, pc, stages, prev, nruns, nsuccess, callerVars,
                   cache_loaded, load_attempts, load_failed>>
    /\ UNCHANGED <<other, authVars>>

Next ==
    \/ \E f \in Offered : ChooseFile(f)
    \/ Call
    \/ Validate
    \/ CopyAndDrop
    \/ Encode
    \/ Scale
    \/ Predict
    \/ Annotate
    \/ SortAndReturn
    \/ Handle

Spec == Init /\ [][Next]_vars


\* A second browser session runs the same script in its own thread: its
\* call of process_and_predict has its own arguments and locals, and uses the
\* encoders, scaler and model of the resource cache.

\* the uploads of the second caller: the single-lead files
OtherOffered ==
    {f \in (IF label_encoders = ExampleEncoders THEN ExampleFiles ELSE Files) :
        Len(f.rows) = 1}

\* the second caller's script run: read_csv of its upload, then the call
OtherCall(f) ==
    /\ cache_loaded
    /\ other.pc = "idle"
    /\ other' = [NoRun EXCEPT !.file = f, !.df = read_csv(f), !.pc = "validate"]
    /\ UNCHANGED <<label_encoders, scaler, best_model, argsort_ties, uploaded_file, df,
                   df_processed, features_scaled, scores, predictions, sorted_index,
                   result_df, error, pc, stages, prev, nruns, nsuccess, callerVars,
                   loadVars, authVars>>

\* return None, message in the second caller's call
OtherFail(r, e) == [NoRun EXCEPT !.file = r.file, !.df = r.df, !.error = e, !.pc = "failed"]

\* variant: the working copy is taken from the frame of the first caller
OtherCopy_shared(r) == [r EXCEPT !.df_processed = DropConverted(df), !.pc = "encode"]

\* df_processed = df.copy() and the drop of Converted in the second call
OtherCopy(r) == [r EXCEPT !.df_processed = DropConverted(r.df), !.pc = "encode"]

\* the next statement of the second caller's call
OtherStep ==
    /\ other.pc \notin {"idle", "done", "failed"}
    /\ \/ /\ other.pc = "validate"
          /\ other' = IF missing_cols(other.df) # <<>>
                      THEN OtherFail(other, SchemaErrorText(missing_cols(other.df)))
                      ELSE [other EXCEPT !.pc = "copy"]
          /\ UNCHANGED <<best_model, argsort_ties>>
       \/ /\ other.pc = "copy"
          /\ other' = OtherCopy(other)
          /\ UNCHANGED <<best_model, argsort_ties>>
       \/ /\ other.pc = "encode"
          /\ other' = IF RaisingCols(other.df_processed) # {}
                      THEN OtherFail(other, EncodeError(other.df_processed))
                      ELSE [other EXCEPT !.df_processed = Encoded(other.df_processed),
                                         !.pc = "scale"]
          /\ UNCHANGED <<best_model, argsort_ties>>
       \/ /\ other.pc = "scale"
          /\ other' = IF ScaleError(other.df_processed) # NoError
                      THEN OtherFail(other, ScaleError(other.df_processed))
                      ELSE [other EXCEPT
                               !.features_scaled = ScalerTransform(other.df_processed),
                               !.pc = "predict"]
          /\ UNCHANGED <<best_model, argsort_ties>>
       \/ /\ other.pc = "predict"
          /\ \E fresh \in [Range(other.features_scaled) \ DOMAIN best_model -> ModelOutputs] :
                best_model' = [x \in DOMAIN best_model \cup DOMAIN fresh |->
                                  IF x \in DOMAIN best_model THEN best_model[x] ELSE fresh[x]]
          /\ LET out == [i \in DOMAIN other.features_scaled |->
                            best_model'[other.features_scaled[i]]]
                 raising == {i \in DOMAIN out : out[i][1] < 0}
             IN other' =
                   IF raising # {}
                   THEN OtherFail(other, ModelErrorText(
                            out[CHOOSE i \in raising : \A j \in raising : i <= j]))
                   ELSE [other EXCEPT !.scores = [i \in DOMAIN out |-> out[i][1]],
                                      !.predictions = [i \in DOMAIN out |-> out[i][2]],
                                      !.pc = "annotate"]
          /\ UNCHANGED argsort_ties
       \/ /\ other.pc = "annotate"
          /\ other' = [other EXCEPT !.df = AddResults(other.df, other.scores,
                                                      other.predictions),
                                    !.pc = "sort"]
          /\ UNCHANGED <<best_model, argsort_ties>>
       \/ /\ other.pc = "sort"
          /\ \E p \in Orders(other.scores) :
                /\ other.scores \in DOMAIN argsort_ties => p = argsort_ties[other.scores]
                /\ argsort_ties' = [k \in DOMAIN argsort_ties \cup {other.scores} |->
                                       IF k = other.scores THEN p ELSE argsort_ties[k]]
                /\ other' = [NoRun EXCEPT !.file = other.file, !.df = other.df,
                                          !.result_df = Take(other.df, p), !.pc = "done"]
          /\ UNCHANGED best_model
    /\ UNCHANGED <<label_encoders, scaler, uploaded_file, df, df_processed,
                   features_scaled, scores, predictions, sorted_index, result_df, error,
                   pc, stages, prev, nruns, nsuccess, callerVars, loadVars, authVars>>

\* the example process with one run left for the first caller, and a second
\* caller
InitPar ==
    /\ label_encoders = ExampleEncoders
    /\ scaler = ExampleScaler
    /\ best_model = ExampleModel
    /\ argsort_ties = <<>>
    /\ uploaded_file = NoTable
    /\ df = NoTable
    /\ df_processed = NoTable
    /\ features_scaled = <<>>
    /\ scores = <<>>
    /\ predictions = <<>>
    /\ sorted_index = <<>>
    /\ result_df = NoTable
    /\ error = NoError
    /\ pc = "idle"
    /\ stages = <<>>
    /\ prev = NoPrev
    /\ nruns = MaxRuns - 1
    /\ nsuccess = 0
    /\ user = 2
    /\ LoggedInStart
    /\ other = NoRun
    /\ shown = "none"
    /\ on_disk = TRUE
    /\ cache_loaded = TRUE
    /\ load_attempts = 1
    /\ load_failed = FALSE

NextPar == Next \/ (\E f \in OtherOffered : OtherCall(f)) \/ OtherStep

SpecPar == InitPar /\ [][NextPar]_vars

----------------------------------------------------------------------------
\* Accounts and sessions: the database functions and the buttons that call
\* them. A write transaction of one connection (from its first UPDATE or
\* INSERT to its commit) excludes the writes of every other connection.

UserRow(username, password, role) ==
    [username |-> username, password_hash |-> hash_password(password),
     is_active |-> TRUE, role |-> role]

LogRow(user_id, action, details, leads_scored) ==
    [user_id |-> user_id, action |-> action, details |-> details,
     leads_scored |-> leads_scored]

\* UPDATE sessions SET is_active = 0 WHERE user_id = ? AND is_active = 1
Deactivated(rows, user_id) ==
    [k \in DOMAIN rows |->
        IF rows[k].user_id = user_id THEN [rows[k] EXCEPT !.is_active = FALSE] ELSE rows[k]]

\* the texts typed into the forms
LoginNames == {"", "admin", "alice"}

LoginPasswords == {AdminPassword, GoodPassword}

FormPasswords == {GoodPassword, ShortPassword}

\* SELECT id, username, role, is_active FROM users WHERE username = ? AND
\* password_hash = ?
SelectUser(username, password) ==
    {id \in DOMAIN users : /\ users[id].username = username
                           /\ users[id].password_hash = hash_password(password)}

SetBrowser(b, rec) == browsers' = [browsers EXCEPT ![b] = rec]

\* variant: a disabled account passes the test of the row
LoginPress_lax(b, username, password) ==
    /\ ~browsers[b].logged_in
    /\ browsers[b].at = "page"
    /\ nops < MaxOps
    /\ nops' = nops + 1
    /\ LET found == SelectUser(username, password)
       IN IF username # "" /\ password # <<>> /\ found # {}
          THEN \E id \in found :
                  SetBrowser(b, [browsers[b] EXCEPT
                                    !.at = "verified",
                                    !.sel = [id |-> id, username |-> users[id].username,
                                             role |-> users[id].role,
                                             is_active |-> users[id].is_active]])
          ELSE UNCHANGED browsers
    /\ UNCHANGED <<users, users_seq, sessions, usage_logs>>
    /\ UNCHANGED <<label_encoders, scaler, best_model, argsort_ties, uploaded_file, df,
                   df_processed, features_scaled, scores, predictions, sorted_index,
                   result_df, error, pc, stages, prev, nruns, nsuccess, user, shown,
                   loadVars, other>>

\* the Login button: the form check, then verify_user up to its SELECT and
\* the test of the row; a rejected attempt ends here
LoginPress(b, username, password) ==
    /\ ~browsers[b].logged_in
    /\ browsers[b].at = "page"
    /\ nops < MaxOps
    /\ nops' = nops + 1
    /\ LET found == SelectUser(username, password)
       IN IF username # "" /\ password # <<>> /\ found # {}
             /\ (\A id \in found : users[id].is_active)
          THEN \E id \in found :
                  SetBrowser(b, [browsers[b] EXCEPT
                                    !.at = "verified",
                                    !.sel = [id |-> id, username |-> users[id].username,
                                             role |-> users[id].role,
                                             is_active |-> users[id].is_active]])
          ELSE UNCHANGED browsers
    /\ UNCHANGED <<users, users_seq, sessions, usage_logs>>
    /\ UNCHANGED <<label_encoders, scaler, best_model, argsort_ties, uploaded_file, df,
                   df_processed, features_scaled, scores, predictions, sorted_index,
                   result_df, error, pc, stages, prev, nruns, nsuccess, user, shown,
                   loadVars, other>>

\* variant: the sessions of the user are left active when a new one is added
VerifyCommit_keep(b) ==
    /\ browsers[b].at = "verified"
    /\ sessions' = Append(sessions, [user_id |-> browsers[b].sel.id, is_active |-> TRUE])
    /\ SetBrowser(b, [browsers[b] EXCEPT !.at = "committed"])
    /\ UNCHANGED <<users, users_seq, usage_logs, nops>>
    /\ UNCHANGED <<label_encoders, scaler, best_model, argsort_ties, uploaded_file, df,
                   df_processed, features_scaled, scores, predictions, sorted_index,
                   result_df, error, pc, stages, prev, nruns, nsuccess, user, shown,
                   loadVars, other>>

\* verify_user from its first UPDATE to the commit: the active sessions of
\* the user are closed and a new active one is inserted
VerifyCommit(b) ==
    /\ browsers[b].at = "verified"
    /\ sessions' = Append(Deactivated(sessions, browsers[b].sel.id),
                          [user_id |-> browsers[b].sel.id, is_active |-> TRUE])
    /\ SetBrowser(b, [browsers[b] EXCEPT !.at = "committed"])
    /\ UNCHANGED <<users, users_seq, usage_logs, nops>>
    /\ UNCHANGED <<label_encoders, scaler, best_model, argsort_ties, uploaded_file, df,
                   df_processed, features_scaled, scores, predictions, sorted_index,
                   result_df, error, pc, stages, prev, nruns, nsuccess, user, shown,
                   loadVars, other>>

\* verify_user has returned the user: session_state is set and the login
\* is logged
LoginFinish(b) ==
    /\ browsers[b].at = "committed"
    /\ SetBrowser(b, [logged_in |-> TRUE, user |-> browsers[b].sel, at |-> "page",
                      sel |-> NoUser])
    /\ usage_logs' = Append(usage_logs, LogRow(browsers[b].sel.id, "login", "", 0))
    /\ UNCHANGED <<users, users_seq, sessions, nops>>
    /\ UNCHANGED <<label_encoders, scaler, best_model, argsort_ties, uploaded_file, df,
                   df_processed, features_scaled, scores, predictions, sorted_index,
                   result_df, error, pc, stages, prev, nruns, nsuccess, user, shown,
                   loadVars, other>>

\* the LOGOUT button: logout_user(st.session_state.user['id'])
LogoutPress(b) ==
    /\ browsers[b].logged_in
    /\ browsers[b].at = "page"
    /\ nops < MaxOps
    /\ nops' = nops + 1
    /\ sessions' = Deactivated(sessions, browsers[b].user.id)
    /\ SetBrowser(b, [browsers[b] EXCEPT !.at = "logout"])
    /\ UNCHANGED <<users, users_seq, usage_logs>>
    /\ UNCHANGED <<label_encoders, scaler, best_model, argsort_ties, uploaded_file, df,
                   df_processed, features_scaled, scores, predictions, sorted_index,
                   result_df, error, pc, stages, prev, nruns, nsuccess, user, shown,
                   loadVars, other>>

\* the rest of the logout handler: the log record, then session_state
LogoutFinish(b) ==
    /\ browsers[b].at = "logout"
    /\ usage_logs' = Append(usage_logs, LogRow(browsers[b].user.id, "logout", "", 0))
    /\ SetBrowser(b, LoggedOut)
    /\ UNCHANGED <<users, users_seq, sessions, nops>>
    /\ UNCHANGED <<label_encoders, scaler, best_model, argsort_ties, uploaded_file, df,
                   df_processed, features_scaled, scores, predictions, sorted_index,
                   result_df, error, pc, stages, prev, nruns, nsuccess, user, shown,
                   loadVars, other>>

\* variant: the account with id 1 is not protected
Execute_any(b, user_id_action, action_type) ==
    /\ browsers[b].logged_in
    /\ browsers[b].at = "page"
    /\ browsers[b].user.role = "admin"
    /\ nops < MaxOps
    /\ nops' = nops + 1
    /\ users' =
          IF user_id_action \notin DOMAIN users THEN users
          ELSE IF action_type = "Enable"
          THEN [users EXCEPT ![user_id_action].is_active = TRUE]
          ELSE IF action_type = "Disable"
          THEN [users EXCEPT ![user_id_action].is_active = FALSE]
          ELSE [id \in DOMAIN users \ {user_id_action} |-> users[id]]
    /\ UNCHANGED <<users_seq, sessions, browsers, usage_logs>>
    /\ UNCHANGED <<label_encoders, scaler, best_model, argsort_ties, uploaded_file, df,
                   df_processed, features_scaled, scores, predictions, sorted_index,
                   result_df, error, pc, stages, prev, nruns, nsuccess, user, shown,
                   loadVars, other>>

\* the EXECUTE button of the admin's user actions: toggle_user_status or
\* delete_user unless the id is 1
Execute(b, user_id_action, action_type) ==
    /\ browsers[b].logged_in
    /\ browsers[b].at = "page"
    /\ browsers[b].user.role = "admin"
    /\ nops < MaxOps
    /\ nops' = nops + 1
    /\ users' =
          IF user_id_action = 1 \/ user_id_action \notin DOMAIN users THEN users
          ELSE IF action_type = "Enable"
          THEN [users EXCEPT ![user_id_action].is_active = TRUE]
          ELSE IF action_type = "Disable"
          THEN [users EXCEPT ![user_id_action].is_active = FALSE]
          ELSE [id \in DOMAIN users \ {user_id_action} |-> users[id]]
    /\ UNCHANGED <<users_seq, sessions, browsers, usage_logs>>
    /\ UNCHANGED <<label_encoders, scaler, best_model, argsort_ties, uploaded_file, df,
                   df_processed, features_scaled, scores, predictions, sorted_index,
                   result_df, error, pc, stages, prev, nruns, nsuccess, user, shown,
                   loadVars, other>>

\* variant: the INSERT is done whatever the username
create_user_by_admin_dup(username, password) ==
    /\ users' = users @@ ((users_seq + 1) :> UserRow(username, password, "user"))
    /\ users_seq' = users_seq + 1

\* create_user_by_admin: the INSERT fails on the UNIQUE username
create_user_by_admin(username, password) ==
    IF \E id \in DOMAIN users : users[id].username = username
    THEN UNCHANGED <<users, users_seq>>
    ELSE /\ users' = users @@ ((users_seq + 1) :> UserRow(username, password, "user"))
         /\ users_seq' = users_seq + 1

\* the CREATE USER button of the admin's form
CreateUser(b, new_username, new_password, confirm_password) ==
    /\ browsers[b].logged_in
    /\ browsers[b].at = "page"
    /\ browsers[b].user.role = "admin"
    /\ nops < MaxOps
    /\ nops' = nops + 1
    /\ IF new_username # "" /\ new_password = confirm_password /\ Len(new_password) >= 6
       THEN create_user_by_admin(new_username, new_password)
       ELSE UNCHANGED <<users, users_seq>>
    /\ UNCHANGED <<sessions, browsers, usage_logs>>
    /\ UNCHANGED <<label_encoders, scaler, best_model, argsort_ties, uploaded_file, df,
                   df_processed, features_scaled, scores, predictions, sorted_index,
                   result_df, error, pc, stages, prev, nruns, nsuccess, user, shown,
                   loadVars, other>>

\* a successful scoring run of a logged-in browser, as far as the tables
\* are concerned: the login gate reads st.session_state.logged_in, and
\* log_usage writes the id kept in st.session_state.user
ScoringRun(b) ==
    /\ browsers[b].logged_in
    /\ browsers[b].at = "page"
    /\ nops < MaxOps
    /\ nops' = nops + 1
    /\ usage_logs' = Append(usage_logs,
                            LogRow(browsers[b].user.id, "score_leads",
                                   IF browsers[b].user.role = "admin" THEN "Admin scoring"
                                                                      ELSE "User scoring",
                                   1))
    /\ UNCHANGED <<users, users_seq, sessions, browsers>>
    /\ UNCHANGED <<label_encoders, scaler, best_model, argsort_ties, uploaded_file, df,
                   df_processed, features_scaled, scores, predictions, sorted_index,
                   result_df, error, pc, stages, prev, nruns, nsuccess, user, shown,
                   loadVars, other>>

\* the database right after init_database, or after the admin has logged
\* in, created the account alice and logged out; every browser on the login
\* page
InitAuth ==
    /\ label_encoders = LoadedEncoders
    /\ scaler = LoadedScaler
    /\ best_model = <<>>
    /\ argsort_ties = <<>>
    /\ uploaded_file = NoTable
    /\ df = NoTable
    /\ df_processed = NoTable
    /\ features_scaled = <<>>
    /\ scores = <<>>
    /\ predictions = <<>>
    /\ sorted_index = <<>>
    /\ result_df = NoTable
    /\ error = NoError
    /\ pc = "idle"
    /\ stages = <<>>
    /\ prev = NoPrev
    /\ nruns = 0
    /\ nsuccess = 0
    /\ user = 2
    /\ shown = "none"
    /\ on_disk = TRUE
    /\ cache_loaded = TRUE
    /\ load_attempts = 1
    /\ load_failed = FALSE
    /\ other = NoRun
    /\ \/ /\ users = (1 :> AdminRow)
          /\ users_seq = 1
          /\ sessions = <<>>
          /\ usage_logs = <<>>
       \/ /\ users = (1 :> AdminRow) @@ (2 :> UserRow("alice", GoodPassword, "user"))
          /\ users_seq = 2
          /\ sessions = << [user_id |-> 1, is_active |-> FALSE] >>
          /\ usage_logs = << LogRow(1, "login", "", 0), LogRow(1, "logout", "", 0) >>
    /\ browsers = [b \in Browsers |-> LoggedOut]
    /\ nops = 0

NextAuth ==
    \/ \E b \in Browsers, username \in LoginNames, password \in LoginPasswords :
          LoginPress(b, username, password)
    \/ \E b \in Browsers : VerifyCommit(b)
    \/ \E b \in Browsers : LoginFinish(b)
    \/ \E b \in Browsers : LogoutPress(b)
    \/ \E b \in Browsers : LogoutFinish(b)
    \/ \E b \in Browsers, id \in 1..users_seq, a \in {"Enable", "Disable", "Delete"} :
          Execute(b, id, a)
    \/ \E b \in Browsers, username \in LoginNames, p1 \in FormPasswords, p2 \in FormPasswords :
          CreateUser(b, username, p1, p2)
    \/ \E b \in Browsers : ScoringRun(b)

SpecAuth == InitAuth /\ [][NextAuth]_vars

\* the server process from its start, the artifacts not yet loaded
InitLoad ==
    /\ label_encoders = <<>>
    /\ scaler = NoScaler
    /\ best_model = <<>>
    /\ argsort_ties = <<>>
    /\ uploaded_file = NoTable
    /\ df = NoTable
    /\ df_processed = NoTable
    /\ features_scaled = <<>>
    /\ scores = <<>>
    /\ predictions = <<>>
    /\ sorted_index = <<>>
    /\ result_df = NoTable
    /\ error = NoError
    /\ pc = "idle"
    /\ stages = <<>>
    /\ prev = NoPrev
    /\ nruns = 0
    /\ nsuccess = 0
    /\ user = 2
    /\ LoggedInStart
    /\ other = NoRun
    /\ shown = "none"
    /\ on_disk \in BOOLEAN
    /\ cache_loaded = FALSE
    /\ load_attempts = 0
    /\ load_failed = FALSE

NextLoad == Next \/ LoadModels \/ FilesAppear

SpecLoad == InitLoad /\ [][NextLoad]_vars

\* the worked example: the process with the example artifacts loaded
InitExample ==
    /\ label_encoders = ExampleEncoders
    /\ scaler = ExampleScaler
    /\ best_model = ExampleModel
    /\ argsort_ties = <<>>
    /\ uploaded_file = NoTable
    /\ df = NoTable
    /\ df_processed = NoTable
    /\ features_scaled = <<>>
    /\ scores = <<>>
    /\ predictions = <<>>
    /\ sorted_index = <<>>
    /\ result_df = NoTable
    /\ error = NoError
    /\ pc = "idle"
    /\ stages = <<>>
    /\ prev = NoPrev
    /\ nruns = 0
    /\ nsuccess = 0
    /\ user = 2
    /\ LoggedInStart
    /\ other = NoRun
    /\ shown = "none"
    /\ on_disk = TRUE
    /\ cache_loaded = TRUE
    /\ load_attempts = 1
    /\ load_failed = FALSE

SpecExample == InitExample /\ [][Next]_vars

\* process_and_predict is a synchronous computation: a call that has begun
\* executes its next statement
Step == Validate \/ CopyAndDrop \/ Encode \/ Scale \/ Predict \/ Annotate \/ SortAndReturn

FairSpec == SpecExample /\ WF_vars(Step)

TypeOK ==
    /\ pc \in {"idle", "validate", "copy", "encode", "scale", "predict", "annotate",
               "sort", "done", "failed"}
    /\ user \in UserIds
    /\ shown \in {"none", "pending", "error", "exception", "results"}
    /\ nruns \in 0..MaxRuns
    /\ nsuccess \in 0..nruns
    /\ load_attempts \in 0..MaxLoads
    /\ nops \in 0..MaxOps
    /\ DOMAIN users \subseteq 1..users_seq
    /\ \A b \in Browsers : browsers[b].at \in {"page", "verified", "committed", "logout"}
    /\ \A k \in DOMAIN sessions : sessions[k].is_active \in BOOLEAN
    /\ \A x \in DOMAIN best_model : best_model[x] \in ModelOutputs \cup Range(ExampleModel)

----------------------------------------------------------------------------
\* Vocabulary of the claims

Finished == pc \in {"done", "failed"}

Required == Range(expected_cols)

Present == Range(uploaded_file.columns)

Extra == Present \ (Required \cup {"Converted"})

\* the required columns of the upload whose cells are not all in the
\* trained vocabulary of the column
OffendingCols ==
    {c \in Required \cap Present :
        \E i \in DOMAIN uploaded_file.rows :
            uploaded_file.rows[i][c] \notin Range(EncoderOf(c).classes_)}

LeadScores(t) == [i \in DOMAIN t.rows |-> t.rows[i]["Lead_Score"].n]

Tiers == {Cat("Low"), Cat("Medium"), Cat("High")}

----------------------------------------------------------------------------
\* C1: every output row has exactly one tier, Low iff p <= 0.40, Medium iff
\* 0.40 < p <= 0.70, High iff p > 0.70, the score 0.0 included.
C1_PriorityTiers ==
    pc = "done" =>
        \A i \in DOMAIN result_df.rows :
            LET p == result_df.rows[i]["Lead_Score"].n
                tier == result_df.rows[i]["Priority"]
            IN /\ tier \in Tiers
               /\ tier = Cat("Low") <=> p <= 400000
               /\ tier = Cat("Medium") <=> (p > 400000 /\ p <= 700000)
               /\ tier = Cat("High") <=> p > 700000

\* C2: an upload lacking a required column fails at validation with an
\* error listing exactly the required columns that are absent, before any
\* later statement runs, and no table is returned.
C2_SchemaError ==
    (pc # "idle" /\ Required \ Present # {}) =>
        /\ pc \in {"validate", "failed"}
        /\ Range(stages) \subseteq {"validate"}
        /\ result_df = NoTable
        /\ pc = "failed" =>
              /\ error.msg = "Missing required columns"
              /\ Range(error.cols) = Required \ Present
              /\ Len(error.cols) = Cardinality(Required \ Present)
              /\ df = read_csv(uploaded_file)

C2_Witness ==
    /\ pc = "failed"
    /\ Cardinality(Required \ Present) = 2
    /\ Len(error.cols) = 2

\* C3: an upload with every required column (all cells in vocabulary) and
\* some extra column is scored, and the extra column is in the result with
\* its values unchanged.
C3_ExtraColumnsPass ==
    (Finished /\ Required \subseteq Present /\ OffendingCols = {} /\ Extra # {}) =>
        /\ pc = "done"
        /\ \A c \in Extra :
              /\ c \in Range(result_df.columns)
              /\ \A i \in DOMAIN result_df.rows :
                    result_df.rows[i][c] = read_csv(uploaded_file).rows[sorted_index[i]][c]

\* C4: one out-of-vocabulary cell in a required column fails the whole run:
\* no table, no scored row, and the model is never called.
C4_UnknownCategoryAborts ==
    (pc # "idle" /\ OffendingCols # {}) =>
        /\ pc \in {"validate", "copy", "encode", "failed"}
        /\ "predict" \notin Range(stages)
        /\ result_df = NoTable
        /\ df = read_csv(uploaded_file)

C4_Witness ==
    /\ pc = "failed"
    /\ OffendingCols # {}
    /\ "encode" \in Range(stages)
    /\ Len(uploaded_file.rows) >= 2
    /\ \E i \in DOMAIN uploaded_file.rows :
          \A c \in Required : uploaded_file.rows[i][c] \in Range(EncoderOf(c).classes_)

\* C5: the error of a run that failed on an out-of-vocabulary cell names
\* the offending column and the offending value.
C5_ErrorNamesColumnAndValue ==
    (pc = "failed" /\ Required \subseteq Present /\ OffendingCols # {}) =>
        /\ \E c \in OffendingCols : c \in Range(error.cols)
        /\ error.vals # {}

\* C6 (as stated): the result of a successful run on an upload with a
\* Converted column has no Converted column.
C6_ConvertedAbsent ==
    (pc = "done" /\ "Converted" \in Present) => "Converted" \notin Range(result_df.columns)

\* C6 (amended): the Converted column is left out of the working copy that
\* is encoded and scaled, and the result of a successful run still has the
\* Converted column with the uploaded values.
C6_ConvertedKept ==
    /\ pc \in {"encode", "scale", "predict", "annotate", "sort"} =>
          "Converted" \notin Range(df_processed.columns)
    /\ (pc = "done" /\ "Converted" \in Present) =>
          /\ "Converted" \in Range(result_df.columns)
          /\ \A i \in DOMAIN result_df.rows :
                result_df.rows[i]["Converted"] =
                    read_csv(uploaded_file).rows[sorted_index[i]]["Converted"]

C6_Witness ==
    /\ pc = "done"
    /\ "Converted" \in Present
    /\ \E i, j \in DOMAIN result_df.rows :
          result_df.rows[i]["Converted"] # result_df.rows[j]["Converted"]

\* C7: the run on an upload and the run on the same upload with another or
\* no Converted column both fail with the same error or both succeed with
\* the same scores, and Converted never reaches the encoder, scaler or model.
C7_ConvertedIrrelevant ==
    /\ (Finished /\ prev.file # NoTable /\ Related(prev.file, uploaded_file)) =>
          /\ error = prev.error
          /\ (result_df = NoTable) <=> (prev.result = NoTable)
          /\ result_df # NoTable => LeadScores(result_df) = LeadScores(prev.result)
    /\ pc \in {"encode", "scale", "predict", "annotate", "sort"} =>
          "Converted" \notin Range(df_processed.columns)
    /\ \A i \in DOMAIN features_scaled :
          Len(features_scaled[i]) = Cardinality(Present \ {"Converted"})

C7_Witness ==
    /\ pc = "done"
    /\ prev.result # NoTable
    /\ "Converted" \in Range(prev.file.columns)
    /\ "Converted" \notin Present

\* C8: the rows of a result table are in non-increasing Lead_Score order.
C8_SortedDescending ==
    pc = "done" =>
        \A i \in 1..(Len(result_df.rows) - 1) :
            result_df.rows[i]["Lead_Score"].n >= result_df.rows[i + 1]["Lead_Score"].n

C8_Witness ==
    /\ pc = "done"
    /\ Len(result_df.rows) >= 2
    /\ sorted_index[1] = 2
    /\ result_df.rows[1]["Lead_Score"].n > result_df.rows[2]["Lead_Score"].n

\* C9: rows with equal scores keep their upload order in the result.
C9_StableSort ==
    pc = "done" =>
        \A i, j \in DOMAIN result_df.rows :
            (i < j /\ result_df.rows[i]["Lead_Score"].n = result_df.rows[j]["Lead_Score"].n)
                => sorted_index[i] < sorted_index[j]

\* C10: a second run on the identical upload has the outcome of the first:
\* the same error, or the same table (rows, order and scores).
C10_Deterministic ==
    (Finished /\ prev.file = uploaded_file) =>
        /\ error = prev.error
        /\ result_df = prev.result

C10_Witness ==
    /\ pc = "done"
    /\ prev.file = uploaded_file
    /\ prev.result # NoTable
    /\ Len(result_df.rows) >= 2
    /\ result_df.rows[1]["Lead_Score"].n = result_df.rows[2]["Lead_Score"].n

DerivedCols == <<"Lead_Score", "Lead_Score_%", "Priority", "Prediction">>

\* C11 as stated: after any call the caller's input table is what was read
\* from the upload, columns and cell values.
C11_InputUnchanged == Finished => df = read_csv(uploaded_file)

\* C11: no step of a call changes the encoder set, the scaler or an answer of
\* the model; a failed call leaves the caller's table as read from the
\* upload; a successful call changes it only by appending the four derived
\* columns, every uploaded column keeping its place and its cell values.
C11_FrameEffect ==
    [][/\ (pc # "idle" \/ pc' # "idle") =>
             /\ label_encoders' = label_encoders
             /\ scaler' = scaler
             /\ \A x \in DOMAIN best_model :
                    x \in DOMAIN best_model' /\ best_model'[x] = best_model[x]
       /\ pc' = "failed" => df' = read_csv(uploaded_file')
       /\ pc' = "done" =>
             LET inp == read_csv(uploaded_file')
             IN /\ df'.columns = inp.columns \o DerivedCols
                /\ DOMAIN df'.rows = DOMAIN inp.rows
                /\ \A i \in DOMAIN inp.rows : \A c \in Range(inp.columns) :
                       df'.rows[i][c] = inp.rows[i][c]]_vars

C11_Witness ==
    /\ pc = "done"
    /\ nruns = 2
    /\ df # read_csv(uploaded_file)
    /\ \E c \in Required : \E i \in DOMAIN df.rows : df.rows[i][c] \in {S("Google"), S("Yes")}

\* C12: the result table has the uploaded columns in the uploaded order with
\* the uploaded raw values, followed by exactly Lead_Score, Lead_Score_%,
\* Priority, Prediction; no encoded or scaled value is in it.
C12_ResultColumns ==
    pc = "done" =>
        LET inp == read_csv(uploaded_file)
        IN /\ result_df.columns = inp.columns \o DerivedCols
           /\ DOMAIN result_df.rows = DOMAIN inp.rows
           /\ \A i \in DOMAIN result_df.rows :
                 /\ DOMAIN result_df.rows[i] = Range(result_df.columns)
                 /\ \A c \in Range(inp.columns) :
                       result_df.rows[i][c] = inp.rows[sorted_index[i]][c]

C12_Witness ==
    /\ pc = "done"
    /\ sorted_index = <<2, 1>>
    /\ "Converted" \in Present
    /\ \E i \in DOMAIN result_df.rows : result_df.rows[i]["Email_Source"] = S("Google")

\* C13: a call ends with a table and no error, or with an error and no
\* table, never both and never neither; a failed call runs no further stage
\* and stays failed until another call is made; after a failed call the
\* dashboard shows no results (and so offers no export).
C13_TwoOutcomes ==
    [][/\ pc' = "done" => (result_df' # NoTable /\ error'.isnone)
       /\ pc' = "failed" => (result_df' = NoTable /\ ~error'.isnone /\ shown' # "results")
       /\ pc = "failed" =>
             \/ pc' = "failed" /\ stages' = stages /\ error' = error /\ nruns' = nruns
             \/ pc' = "idle" /\ uploaded_file' # uploaded_file
             \/ pc' = "validate" /\ nruns' = nruns + 1]_vars

C13_Witness ==
    /\ pc = "failed"
    /\ shown = "exception"
    /\ error.msg = ""
    /\ stages[Len(stages)] = "predict"

ScoreLogs == SelectSeq(usage_logs, LAMBDA r : r.action = "score_leads")

\* C14: the usage log has one 'score_leads' record per successful run, with
\* the id of the user who ran it and the number of rows of its result; a
\* failed run, one with an empty message included, adds none.
C14_UsageLog ==
    /\ Len(ScoreLogs) = nsuccess - (IF pc = "done" /\ shown = "pending" THEN 1 ELSE 0)
    /\ \A k \in DOMAIN ScoreLogs : ScoreLogs[k].user_id = user
    /\ (pc = "done" /\ shown # "pending") =>
          /\ shown = "results"
          /\ ScoreLogs[Len(ScoreLogs)].leads_scored = Len(result_df.rows)

C14_Witness ==
    /\ pc = "failed"
    /\ shown = "exception"
    /\ nsuccess = 1
    /\ Len(ScoreLogs) = 1
    /\ ScoreLogs[1].user_id = 2
    /\ ScoreLogs[1].leads_scored = 2

\* the three summary metrics of the results dashboard
high_score(t) == Cardinality({i \in DOMAIN t.rows : t.rows[i]["Lead_Score"].n > 700000})

medium_score(t) ==
    Cardinality({i \in DOMAIN t.rows : /\ t.rows[i]["Lead_Score"].n > 400000
                                       /\ t.rows[i]["Lead_Score"].n <= 700000})

low_score(t) == Cardinality({i \in DOMAIN t.rows : t.rows[i]["Lead_Score"].n <= 400000})

WithPriority(t, tier) == Cardinality({i \in DOMAIN t.rows : t.rows[i]["Priority"] = Cat(tier)})

\* C15: the High, Medium and Low counters shown with a result equal the
\* numbers of result rows whose Priority is High, Medium and Low, and add up
\* to the number of rows, scores of exactly 0.0, 0.40 and 0.70 included.
C15_CountersMatchPriority ==
    shown = "results" =>
        /\ high_score(result_df) = WithPriority(result_df, "High")
        /\ medium_score(result_df) = WithPriority(result_df, "Medium")
        /\ low_score(result_df) = WithPriority(result_df, "Low")
        /\ high_score(result_df) + medium_score(result_df) + low_score(result_df)
              = Len(result_df.rows)

\* the leads of a result with their scores, whatever the order of the rows
\* and of the columns
ScoredLeads(t) ==
    {[lead |-> [c \in Required |-> t.rows[i][c]], score |-> t.rows[i]["Lead_Score"].n]
        : i \in DOMAIN t.rows}

\* C16: the matrix given to the scaler has exactly one column per required
\* field, in the order of the encoder keys, whatever the column order of the
\* upload; two uploads that differ only in column order end alike, with the
\* same score for every lead.
C16_FeatureOrder ==
    /\ pc \in {"scale", "predict"} => df_processed.columns = expected_cols
    /\ (Finished /\ prev.file # NoTable /\ Permuted(prev.file, uploaded_file)) =>
          /\ error = prev.error
          /\ (result_df = NoTable) <=> (prev.result = NoTable)
          /\ result_df # NoTable => ScoredLeads(result_df) = ScoredLeads(prev.result)

\* C17: once a load of the artifacts has failed, the process never loads
\* again and never processes an upload; once a load has succeeded, no
\* further load happens and every run uses the artifacts then loaded.
C17_LoadOnceOrNever ==
    [][/\ load_failed => (load_attempts' = load_attempts /\ nruns' = nruns)
       /\ cache_loaded =>
             /\ load_attempts' = load_attempts
             /\ cache_loaded'
             /\ label_encoders' = label_encoders
             /\ scaler' = scaler]_vars

ExampleRow(src, con, sc, pct, pri, pred) ==
    [c \in Range(<<"Source", "Contacted">> \o DerivedCols) |->
        CASE c = "Source" -> S(src)
          [] c = "Contacted" -> S(con)
          [] c = "Lead_Score" -> F(sc)
          [] c = "Lead_Score_%" -> F(pct)
          [] c = "Priority" -> Cat(pri)
          [] c = "Prediction" -> S(pred)]

\* C18: with the example artifacts, the upload of the rows (Google, Yes) and
\* (Direct, No), in either order, gives the table (Google, Yes, 0.85, 85.0,
\* High, Likely), (Direct, No, 0.2, 20.0, Low, Unlikely).
C18_WorkedExample ==
    (/\ pc = "done"
     /\ uploaded_file.columns = <<"Source", "Contacted">>
     /\ uploaded_file.rows \in
           { << [Source |-> "Google", Contacted |-> "Yes"],
                [Source |-> "Direct", Contacted |-> "No"] >>,
             << [Source |-> "Direct", Contacted |-> "No"],
                [Source |-> "Google", Contacted |-> "Yes"] >> })
    => /\ result_df.columns = <<"Source", "Contacted">> \o DerivedCols
       /\ result_df.rows =
             << ExampleRow("Google", "Yes", 850000, 8500, "High", "Likely"),
                ExampleRow("Direct", "No", 200000, 2000, "Low", "Unlikely") >>

C18_Witness ==
    /\ pc = "done"
    /\ label_encoders = ExampleEncoders
    /\ uploaded_file.columns = <<"Source", "Contacted">>
    /\ Len(uploaded_file.rows) = 2
    /\ uploaded_file.rows[1] = [Source |-> "Direct", Contacted |-> "No"]
    /\ uploaded_file.rows[2] = [Source |-> "Google", Contacted |-> "Yes"]
    /\ sorted_index = <<2, 1>>

StageOrder == <<"validate", "copy", "encode", "scale", "predict", "annotate", "sort">>

Running == pc \in {"validate", "copy", "encode", "scale", "predict", "annotate", "sort"}

\* C19: the stages of a call are executed in the order validate, drop
\* Converted, encode, scale, infer, annotate, sort, each at most once and
\* none before its predecessor has succeeded; a failing stage is the last
\* one executed; a finished call executes nothing more; and every call that
\* has begun finishes, as done or as failed.
C19_StageOrder ==
    /\ [](/\ Len(stages) <= Len(StageOrder)
          /\ stages = SubSeq(StageOrder, 1, Len(stages))
          /\ Running => pc = StageOrder[Len(stages) + 1]
          /\ pc = "done" => stages = StageOrder
          /\ pc = "failed" => Len(stages) >= 1)
    /\ [][Finished => \/ (pc' = pc /\ stages' = stages /\ result_df' = result_df)
                       \/ (pc' \in {"idle", "validate"} /\ stages' = <<>>)]_vars
    /\ (Running ~> Finished)

C19_Witness ==
    /\ pc = "failed"
    /\ stages = <<"validate", "copy", "encode", "scale">>
    /\ nruns = 2
    /\ prev.error.msg # ""

\* the answer of the model for row i of the upload as read
AnswerFor(i) ==
    LET features == ScalerTransform(Encoded(DropConverted(read_csv(uploaded_file))))
    IN best_model[features[i]]

\* C20: the result has as many rows as the upload, every uploaded row
\* appears in it exactly once, and the Lead_Score, Lead_Score_%, Priority and
\* Prediction of a result row are those computed from the features of that
\* same row, the percentage being the score times 100 rounded to 2 decimals.
C20_RowAligned ==
    pc = "done" =>
        LET inp == read_csv(uploaded_file)
        IN /\ Len(result_df.rows) = Len(inp.rows)
           /\ DOMAIN sorted_index = DOMAIN inp.rows
           /\ Range(sorted_index) = DOMAIN inp.rows
           /\ \A i \in DOMAIN result_df.rows :
                 LET row == result_df.rows[i]
                     out == AnswerFor(sorted_index[i])
                 IN /\ \A c \in Range(inp.columns) : row[c] = inp.rows[sorted_index[i]][c]
                    /\ row["Lead_Score"] = F(out[1])
                    /\ 100 * row["Lead_Score_%"].n - out[1] \in -50..50
                    /\ row["Lead_Score_%"] = F(Round2(out[1]))
                    /\ row["Priority"] = cut(out[1])
                    /\ row["Prediction"] = PredictionLabel(out[2])

C20_Witness ==
    /\ pc = "done"
    /\ Len(result_df.rows) = 2
    /\ sorted_index = <<2, 1>>
    /\ result_df.rows[1]["Lead_Score"].n = 700001
    /\ result_df.rows[2]["Lead_Score"].n = 400000
    /\ result_df.rows[1]["Email_Source"] # result_df.rows[2]["Email_Source"]

highlight_priority(row) ==
    IF row["Lead_Score_%"].n > 7000 THEN "#e8f5e9"
    ELSE IF row["Lead_Score_%"].n > 4000 THEN "#fff9c4"
    ELSE "#ffebee"

\* C30: in the displayed table a row is green exactly when its Priority is
\* High, yellow exactly when Medium and red exactly when Low, also for a
\* score just above 0.70 or 0.40 whose percentage rounds to 70.00 or 40.00.
C30_ColourMatchesPriority ==
    shown = "results" =>
        \A i \in DOMAIN result_df.rows :
            LET row == result_df.rows[i]
            IN /\ highlight_priority(row) = "#e8f5e9" <=> row["Priority"] = Cat("High")
               /\ highlight_priority(row) = "#fff9c4" <=> row["Priority"] = Cat("Medium")
               /\ highlight_priority(row) = "#ffebee" <=> row["Priority"] = Cat("Low")

\* what a caller running alone gets for an upload: the statements of
\* process_and_predict in their order, with the answers of the model and the
\* order of ties that are fixed for the process
Alone(f) ==
    LET t == read_csv(f)
        dp == DropConverted(t)
        enc == Encoded(dp)
        fs == ScalerTransform(enc)
        out == [i \in DOMAIN fs |-> best_model[fs[i]]]
        raising == {i \in DOMAIN out : out[i][1] < 0}
        sc == [i \in DOMAIN out |-> out[i][1]]
        pr == [i \in DOMAIN out |-> out[i][2]]
    IN IF missing_cols(t) # <<>>
       THEN [result |-> NoTable, error |-> SchemaErrorText(missing_cols(t))]
       ELSE IF RaisingCols(dp) # {}
       THEN [result |-> NoTable, error |-> EncodeError(dp)]
       ELSE IF ScaleError(enc) # NoError
       THEN [result |-> NoTable, error |-> ScaleError(enc)]
       ELSE IF raising # {}
       THEN [result |-> NoTable,
             error |-> ModelErrorText(out[CHOOSE i \in raising : \A j \in raising : i <= j])]
       ELSE [result |-> Take(AddResults(t, sc, pr), argsort_ties[sc]), error |-> NoError]

\* C22: with the steps of two callers' runs interleaved in any order, each
\* caller ends with the result or error it would get running alone on its
\* own upload, a caller's tables hold only its own upload, and the shared
\* encoders, scaler and model answers never change.
C22_Isolation ==
    /\ [](/\ Finished =>
                [result |-> result_df, error |-> error] = Alone(uploaded_file)
          /\ other.pc \in {"done", "failed"} =>
                [result |-> other.result_df, error |-> other.error] = Alone(other.file)
          /\ pc \in {"encode", "scale", "predict"} =>
                df_processed.columns = DropConverted(read_csv(uploaded_file)).columns
          /\ other.pc \in {"encode", "scale", "predict"} =>
                other.df_processed.columns = DropConverted(read_csv(other.file)).columns
          /\ label_encoders = ExampleEncoders
          /\ scaler = ExampleScaler)
    /\ [][\A x \in DOMAIN best_model :
              x \in DOMAIN best_model' /\ best_model'[x] = best_model[x]]_vars

C22_Witness ==
    /\ pc = "done"
    /\ other.pc = "done"
    /\ Len(result_df.rows) > Len(other.result_df.rows)
    /\ uploaded_file.columns # other.file.columns
    /\ \E x \in DOMAIN best_model : x \notin DOMAIN ExampleModel

----------------------------------------------------------------------------
\* Accounts and sessions

ActiveRows(user_id) ==
    {k \in DOMAIN sessions : sessions[k].user_id = user_id /\ sessions[k].is_active}

C24_LoggedInHasSession ==
    \A b \in Browsers :
        browsers[b].logged_in /\ browsers[b].at = "page"
        => ActiveRows(browsers[b].user.id) # {}

\* C25: every usage_logs record of a scoring run is written for a user who
\* at that moment is in users with is_active = 1.
C25_ScoringByActiveUser ==
    [][Len(usage_logs') = Len(usage_logs) + 1
       /\ usage_logs'[Len(usage_logs')].action = "score_leads"
       => LET id == usage_logs'[Len(usage_logs')].user_id
          IN id \in DOMAIN users' /\ users'[id].is_active]_vars

\* C26: the built-in admin stays the users row 1, active and with the role
\* 'admin', no other row has the role 'admin', and an EXECUTE on id 1
\* changes no users row.
C26_AdminProtected ==
    /\ [](/\ 1 \in DOMAIN users
          /\ users[1] = AdminRow
          /\ \A id \in DOMAIN users : users[id].role = "admin" => id = 1)
    /\ [][\A b \in Browsers, a \in {"Enable", "Disable", "Delete"} :
            Execute(b, 1, a) => users' = users]_vars

\* the logged-in admin has pressed EXECUTE and the other account is gone or
\* disabled
C26_Witness ==
    /\ users_seq >= 2
    /\ nops >= 3
    /\ \/ 2 \notin DOMAIN users
       \/ ~users[2].is_active
    /\ \E b \in Browsers : browsers[b].logged_in /\ browsers[b].user.id = 1

\* the accounts a login with these texts is accepted for
Accepted(username, password) ==
    {id \in DOMAIN users : /\ users[id].username = username
                           /\ users[id].password_hash = hash_password(password)
                           /\ users[id].is_active}

LoginRecords == SelectSeq(usage_logs, LAMBDA r : r.action = "login")

\* C27: a login with an unknown username, a wrong password or a disabled
\* account changes neither the tables nor any browser's session state; an
\* accepted login inserts one sessions row and writes one 'login' record.
C27_LoginEffects ==
    /\ [][\A b \in Browsers, username \in LoginNames, password \in LoginPasswords :
            LoginPress(b, username, password) /\ Accepted(username, password) = {}
            => UNCHANGED <<users, users_seq, sessions, usage_logs, browsers>>]_vars
    /\ [][\A b \in Browsers :
            /\ browsers[b].at = "page" /\ browsers'[b].at = "verified"
               => UNCHANGED <<users, sessions, usage_logs>>
            /\ browsers[b].at = "verified" /\ browsers'[b].at = "committed"
               => /\ Len(sessions') = Len(sessions) + 1
                  /\ sessions'[Len(sessions')] = [user_id |-> browsers[b].sel.id, is_active |-> TRUE]
                  /\ UNCHANGED <<users, usage_logs>>
            /\ browsers[b].at = "committed" /\ browsers'[b].at = "page"
               => /\ usage_logs' = Append(usage_logs, LogRow(browsers[b].sel.id, "login", "", 0))
                  /\ browsers'[b].logged_in
                  /\ browsers'[b].user.id = browsers[b].sel.id
                  /\ UNCHANGED <<users, sessions>>]_vars
    /\ [](Len(sessions) = Len(LoginRecords)
                          + Cardinality({b \in Browsers : browsers[b].at = "committed"}))

\* two logins were pressed and rejected: both browsers are still on the
\* login page and the tables are as they were
C27_Witness ==
    /\ nops = 2
    /\ \A b \in Browsers : browsers[b] = LoggedOut
    /\ users_seq = 2
    /\ Len(sessions) = 1
    /\ Len(usage_logs) = 2

\* get_system_stats: SELECT COUNT(*) FROM sessions WHERE is_active = 1
currently_online == Cardinality({k \in DOMAIN sessions : sessions[k].is_active})

\* get_currently_logged_in_users: sessions JOIN users WHERE s.is_active = 1
active_users ==
    {k \in DOMAIN sessions : sessions[k].is_active /\ sessions[k].user_id \in DOMAIN users}

\* C28: the 'Online' count equals the number of users listed as logged in.
C28_OnlineMatchesList == currently_online = Cardinality(active_users)

\* C29: usernames are unique; the CREATE USER button adds exactly one row,
\* with the role 'user', when the username is not empty and new, the two
\* passwords agree and have six characters or more, and changes no row
\* otherwise.
C29_UniqueUsernames ==
    /\ [](\A i \in DOMAIN users, j \in DOMAIN users :
            users[i].username = users[j].username => i = j)
    /\ [][\A b \in Browsers, username \in LoginNames, p1 \in FormPasswords, p2 \in FormPasswords :
            CreateUser(b, username, p1, p2)
            => IF /\ username # "" /\ p1 = p2 /\ Len(p1) >= 6
                  /\ \A id \in DOMAIN users : users[id].username # username
               THEN /\ DOMAIN users' = DOMAIN users \cup {users_seq + 1}
                    /\ users_seq + 1 \notin DOMAIN users
                    /\ users'[users_seq + 1].username = username
                    /\ users'[users_seq + 1].role = "user"
                    /\ \A id \in DOMAIN users : users'[id] = users[id]
               ELSE users' = users]_vars

\* alice was created, deleted and created again
C29_Witness ==
    /\ users_seq = 3
    /\ DOMAIN users = {1, 3}
    /\ users[3].username = "alice"
    /\ users[3].role = "user"

====
